---- MODULE Spec2Model ----
(***************************************************************************)
(* Model of the type-erased, value-semantic Shape wrapper (src/Shape.h)    *)
(* and of the driver that exercises it (src/main.cpp).                     *)
(*                                                                         *)
(* A Shape owns, through std::unique_ptr<ShapeConcept> pimpl, one          *)
(* ShapeModel<T> holder on the free store.  The free store is `heap`, a    *)
(* holder address is a number in 1..MaxHolders, nullptr is NULL.  `out`    *)
(* holds the lines written to std::cout by the most recent operation.      *)
(***************************************************************************)
EXTENDS Integers, Sequences, FiniteSets, TLC

\* ---------------------------------------------------------------- bounds
NumShapes == 2    \* named Shape objects
MaxHolders == 3   \* addresses of the free store
MaxVec == 3       \* largest size of the vector

\* the radii and sides the driver uses (main.cpp:33-34, 46-47)
Doubles == {2, 230}

NULL == 0
ShapeIds == 1..NumShapes
Addrs == 1..MaxHolders

\* ------------------------------------------------- concrete value types
Circle(rad) == [type |-> "Circle", radius |-> rad]
Square(s) == [type |-> "Square", side |-> s]
Triangle == [type |-> "Triangle"]
getRadius(circle) == circle.radius
getSide(square) == square.side

Values == {Circle(r) : r \in Doubles} \cup {Square(s) : s \in Doubles} \cup {Triangle}

\* operator<<(double) with the stream's default format (%g, precision 6):
\* up to six significant digits in fixed notation, otherwise the mantissa
\* rounded to six digits with a decimal exponent.
RECURSIVE Exp10(_)
Exp10(d) == IF d < 10 THEN 0 ELSE 1 + Exp10(d \div 10)
RECURSIVE Pow10(_)
Pow10(n) == IF n = 0 THEN 1 ELSE 10 * Pow10(n - 1)
FormatDouble(d) ==
    IF Exp10(d) < 6 THEN <<d>>
    ELSE LET unit == Pow10(Exp10(d) - 5)
         IN <<(d + unit \div 2) \div unit, "e+", Exp10(d)>>

\* the capability: one free function per concrete type (overload set)
drawShapeCircle(circle) == <<"Circle: ">> \o FormatDouble(getRadius(circle))
drawShapeSquare(square) == <<"Square: ">> \o FormatDouble(getSide(square))
drawShapeTriangle(t) == <<"Δ">>

\* overload resolution on the static type of the argument
drawShape(v) ==
    CASE v.type = "Circle" -> drawShapeCircle(v)
      [] v.type = "Square" -> drawShapeSquare(v)
      [] v.type = "Triangle" -> drawShapeTriangle(v)

\* ------------------------------------------------------------- variables
VARIABLES
    live,      \* live[w]: the named Shape object w is constructed and not yet destroyed
    pimpl,     \* pimpl[w]: Shape::pimpl of w, a holder address or NULL
    heap,      \* heap[a]: the ShapeModel<T> stored at address a, or NoHolder
    shapes,    \* the elements of std::vector<Shape> shapes, each given by its pimpl
    capacity,  \* shapes.capacity()
    inserted,  \* the concrete values passed to shapes.emplace_back, in call order
    out,       \* lines written to std::cout by the most recent operation
    ub,        \* the execution has performed an operation with undefined behaviour
    lastOp     \* the most recent operation and its operands

vars == <<live, pimpl, heap, shapes, capacity, inserted, out, ub, lastOp>>

\* ------------------------------------------------ ShapeConcept / ShapeModel
\* an address without a holder (never allocated, or deleted)
NoHolder == [model |-> "none"]

\* ShapeModel<T>::ShapeModel(T const&): T is the static type of the value
ShapeModel(value) == [model |-> value.type, object |-> value]

\* ShapeModel<T>::clone: make_unique<ShapeModel>(*this), the same T, a copy of object
ModelClone(m) == [model |-> m.model, object |-> m.object]

\* ShapeModel<T>::draw: drawShape(object), the overload fixed by T
ModelDraw(m) ==
    CASE m.model = "Circle" -> drawShapeCircle(m.object)
      [] m.model = "Square" -> drawShapeSquare(m.object)
      [] m.model = "Triangle" -> drawShapeTriangle(m.object)

\* p can be dereferenced: it is not null and a holder lives there
Valid(hp, p) == p /= NULL /\ hp[p] /= NoHolder

\* addresses operator new may return
FreeAddrs(hp) == {a \in Addrs : hp[a] = NoHolder}

\* ~unique_ptr / reset: delete through ShapeConcept's virtual destructor
Delete(hp, p) == IF p = NULL THEN hp ELSE [hp EXCEPT ![p] = NoHolder]

\* ------------------------------------------------------ Shape's members
\* Each operator gives the effect of one member on the free store and on the
\* pimpl of the destination (dst) and of the source (src); a is the address
\* operator new returns if the member allocates.

\* template <typename T> Shape(T const &x)
ShapeCtor(hp, x, a) ==
    [ub |-> FALSE, heap |-> [hp EXCEPT ![a] = ShapeModel(x)], dst |-> a]

\* faulty variant: a copy constructor that checks the source and copies an empty
\* one as empty
ShapeCopyCtorChecked(hp, ps, a) ==
    IF ~Valid(hp, ps)
    THEN [ub |-> FALSE, heap |-> hp, dst |-> NULL, out |-> <<<<"copy ctor">>>>]
    ELSE [ub |-> FALSE, heap |-> [hp EXCEPT ![a] = ModelClone(hp[ps])], dst |-> a,
          out |-> <<<<"copy ctor">>>>]

\* faulty variant: a copy constructor that copies the pointer, not the holder
ShapeCopyCtorShallow(hp, ps, a) ==
    IF ~Valid(hp, ps)
    THEN [ub |-> TRUE, heap |-> hp, dst |-> NULL, out |-> <<>>]
    ELSE [ub |-> FALSE, heap |-> hp, dst |-> ps, out |-> <<<<"copy ctor">>>>]

\* Shape(Shape const &s) : pimpl{s.pimpl->clone()}
ShapeCopyCtor(hp, ps, a) ==
    IF ~Valid(hp, ps)
    THEN [ub |-> TRUE, heap |-> hp, dst |-> NULL, out |-> <<>>]
    ELSE [ub |-> FALSE, heap |-> [hp EXCEPT ![a] = ModelClone(hp[ps])], dst |-> a,
          out |-> <<<<"copy ctor">>>>]

\* faulty variant: a copy assignment that takes the source's holder instead of
\* cloning it
ShapeCopyAssignSteals(hp, pm, d, s, a) ==
    IF ~Valid(hp, pm[s])
    THEN [ub |-> TRUE, heap |-> hp, pimpl |-> pm, out |-> <<>>]
    ELSE [ub |-> FALSE, heap |-> IF d = s THEN hp ELSE Delete(hp, pm[d]),
          pimpl |-> [[pm EXCEPT ![s] = NULL] EXCEPT ![d] = pm[s]],
          out |-> <<<<"copy assign">>>>]

\* faulty variant: a copy assignment that overwrites the object inside the
\* destination's holder and keeps that holder, whatever its type
ShapeCopyAssignObjectOnly(hp, pm, d, s, a) ==
    IF ~Valid(hp, pm[s])
    THEN [ub |-> TRUE, heap |-> hp, pimpl |-> pm, out |-> <<>>]
    ELSE IF Valid(hp, pm[d])
    THEN [ub |-> FALSE, heap |-> [hp EXCEPT ![pm[d]].object = hp[pm[s]].object],
          pimpl |-> pm, out |-> <<<<"copy assign">>>>]
    ELSE [ub |-> FALSE, heap |-> [hp EXCEPT ![a] = ModelClone(hp[pm[s]])],
          pimpl |-> [pm EXCEPT ![d] = a], out |-> <<<<"copy assign">>>>]

\* faulty variant: a copy assignment that releases the destination's holder before
\* it reads the source
ShapeCopyAssignResetFirst(hp, pm, d, s, a) ==
    LET reset == Delete(hp, pm[d])
    IN IF ~Valid(reset, pm[s])
       THEN [ub |-> TRUE, heap |-> reset, pimpl |-> [pm EXCEPT ![d] = NULL], out |-> <<>>]
       ELSE [ub |-> FALSE, heap |-> [reset EXCEPT ![a] = ModelClone(reset[pm[s]])],
             pimpl |-> [pm EXCEPT ![d] = a], out |-> <<<<"copy assign">>>>]

\* Shape &operator=(Shape const &s): pimpl = s.pimpl->clone();
\* the clone is made first, then unique_ptr's move assignment installs it
\* and deletes the holder pimpl owned before.  pm is the pimpl of every
\* wrapper, d is *this and s the argument (d = s for self-assignment).
ShapeCopyAssign(hp, pm, d, s, a) ==
    IF ~Valid(hp, pm[s])
    THEN [ub |-> TRUE, heap |-> hp, pimpl |-> pm, out |-> <<>>]
    ELSE LET cloned == [hp EXCEPT ![a] = ModelClone(hp[pm[s]])]
         IN [ub |-> FALSE, heap |-> Delete(cloned, pm[d]),
             pimpl |-> [pm EXCEPT ![d] = a], out |-> <<<<"copy assign">>>>]

\* faulty variant: a move constructor that copies the pointer and leaves it in the source
ShapeMoveCtorKeepsSource(ps) == [dst |-> ps, src |-> ps]

\* Shape(Shape &&s) = default: unique_ptr's move constructor, pimpl{s.pimpl.release()}
ShapeMoveCtor(ps) == [dst |-> ps, src |-> NULL]

\* faulty variant: a move assignment that copies the pointer and leaves it in the source
ShapeMoveAssignKeepsSource(hp, pm, d, s) ==
    [heap |-> IF d = s THEN hp ELSE Delete(hp, pm[d]), pimpl |-> [pm EXCEPT ![d] = pm[s]]]

\* Shape &operator=(Shape &&s) = default: pimpl.reset(s.pimpl.release()).
\* release() empties s.pimpl and returns what it held; reset() then reads
\* this->pimpl as the old value, stores the released pointer and deletes
\* the old one (d = s for self-assignment).
ShapeMoveAssign(hp, pm, d, s) ==
    LET released == pm[s]
        afterRelease == [pm EXCEPT ![s] = NULL]
        old == afterRelease[d]
    IN [heap |-> Delete(hp, old), pimpl |-> [afterRelease EXCEPT ![d] = released]]

\* faulty variant: a destructor that does not delete the holder
ShapeDtorLeaks(hp, p) == hp

\* ~Shape(): ~unique_ptr deletes the holder
ShapeDtor(hp, p) == Delete(hp, p)

\* faulty variant: a draw that checks the pointer and never forwards to the holder
drawNotForwarded(hp, p) ==
    IF ~Valid(hp, p)
    THEN [ub |-> TRUE, out |-> <<>>]
    ELSE [ub |-> FALSE, out |-> <<>>]

\* friend void draw(Shape const &shape): shape.pimpl->draw()
draw(hp, p) ==
    IF ~Valid(hp, p)
    THEN [ub |-> TRUE, out |-> <<>>]
    ELSE [ub |-> FALSE, out |-> <<ModelDraw(hp[p])>>]

\* ------------------------------------------------------------- history
\* lastOp records the operation just performed: its name, the wrapper it
\* acted on (dst), its wrapper argument (src, 0 if none), a value (arg) and
\* a wrapper (peer).  arg is the value wrapped by a constructor or by
\* emplace_back; for an assignment or a destructor, the value dst held
\* before; for draw, the value dst was constructed from by the operation
\* just before.  peer is set when the operation before made one wrapper a
\* copy of another and this operation involves exactly one of the two: it
\* is the other one.
NoValue == [type |-> "none"]
Copies == {"copy ctor", "copy assign"}
Peer(d, s) ==
    IF lastOp.op \in Copies /\ ~ub /\ lastOp.dst /= lastOp.src
    THEN IF lastOp.src \in {d, s} /\ lastOp.dst \notin {d, s} THEN lastOp.dst
         ELSE IF lastOp.dst \in {d, s} /\ lastOp.src \notin {d, s} THEN lastOp.src
         ELSE 0
    ELSE 0

\* the concrete value behind p, NoValue if there is none
Held(hp, p) == IF Valid(hp, p) THEN hp[p].object ELSE NoValue
Op(name, d, s, v) == [op |-> name, dst |-> d, src |-> s, arg |-> v, peer |-> Peer(d, s)]

\* --------------------------------------------------------------- initial
Init ==
    /\ live = [w \in ShapeIds |-> FALSE]
    /\ pimpl = [w \in ShapeIds |-> NULL]
    /\ heap = [a \in Addrs |-> NoHolder]
    /\ shapes = <<>>
    /\ capacity = 0
    /\ inserted = <<>>
    /\ out = <<>>
    /\ ub = FALSE
    /\ lastOp = [op |-> "start", dst |-> 0, src |-> 0, arg |-> NoValue, peer |-> 0]

\* the address operator new returns to a copy: none is asked for when the
\* source cannot be dereferenced
CloneAddrs(hp, ps) == IF Valid(hp, ps) THEN FreeAddrs(hp) ELSE {NULL}

\* -------------------------------------------- operations on named wrappers
\* Shape w{x};   (main.cpp:33-34)
Construct(w, x) ==
    /\ ~ub /\ ~live[w]
    /\ \E a \in FreeAddrs(heap) :
         LET r == ShapeCtor(heap, x, a)
         IN /\ heap' = r.heap
            /\ pimpl' = [pimpl EXCEPT ![w] = r.dst]
    /\ live' = [live EXCEPT ![w] = TRUE]
    /\ out' = <<>>
    /\ lastOp' = Op("Shape", w, 0, x)
    /\ UNCHANGED <<shapes, capacity, inserted, ub>>

\* Shape w = s;   (main.cpp:36)
CopyConstruct(w, s) ==
    /\ ~ub /\ ~live[w] /\ live[s]
    /\ \E a \in CloneAddrs(heap, pimpl[s]) :
         LET r == ShapeCopyCtor(heap, pimpl[s], a)
         IN /\ heap' = r.heap
            /\ pimpl' = [pimpl EXCEPT ![w] = r.dst]
            /\ live' = [live EXCEPT ![w] = ~r.ub]
            /\ out' = r.out
            /\ ub' = r.ub
    /\ lastOp' = Op("copy ctor", w, s, NoValue)
    /\ UNCHANGED <<shapes, capacity, inserted>>

\* w = s;   (main.cpp:37)
CopyAssign(w, s) ==
    /\ ~ub /\ live[w] /\ live[s]
    /\ \E a \in CloneAddrs(heap, pimpl[s]) :
         LET r == ShapeCopyAssign(heap, pimpl, w, s, a)
         IN /\ heap' = r.heap
            /\ pimpl' = r.pimpl
            /\ out' = r.out
            /\ ub' = r.ub
    /\ lastOp' = Op("copy assign", w, s, Held(heap, pimpl[w]))
    /\ UNCHANGED <<live, shapes, capacity, inserted>>

\* Shape w = std::move(s);
MoveConstruct(w, s) ==
    /\ ~ub /\ ~live[w] /\ live[s]
    /\ LET r == ShapeMoveCtor(pimpl[s])
       IN pimpl' = [pimpl EXCEPT ![w] = r.dst, ![s] = r.src]
    /\ live' = [live EXCEPT ![w] = TRUE]
    /\ out' = <<>>
    /\ lastOp' = Op("move ctor", w, s, NoValue)
    /\ UNCHANGED <<heap, shapes, capacity, inserted, ub>>

\* w = std::move(s);
MoveAssign(w, s) ==
    /\ ~ub /\ live[w] /\ live[s]
    /\ LET r == ShapeMoveAssign(heap, pimpl, w, s)
       IN /\ heap' = r.heap
          /\ pimpl' = r.pimpl
    /\ out' = <<>>
    /\ lastOp' = Op("move assign", w, s, Held(heap, pimpl[w]))
    /\ UNCHANGED <<live, shapes, capacity, inserted, ub>>

\* w goes out of scope
Destroy(w) ==
    /\ ~ub /\ live[w]
    /\ heap' = ShapeDtor(heap, pimpl[w])
    /\ pimpl' = [pimpl EXCEPT ![w] = NULL]
    /\ live' = [live EXCEPT ![w] = FALSE]
    /\ out' = <<>>
    /\ lastOp' = Op("dtor", w, 0, Held(heap, pimpl[w]))
    /\ UNCHANGED <<shapes, capacity, inserted, ub>>

\* draw(w);   (main.cpp:35, 39-41)
Draw(w) ==
    /\ ~ub /\ live[w]
    /\ LET r == draw(heap, pimpl[w])
       IN /\ out' = r.out
          /\ ub' = r.ub
    /\ lastOp' = Op("draw", w, 0, IF lastOp.op = "Shape" /\ lastOp.dst = w
                                    THEN lastOp.arg ELSE NoValue)
    /\ UNCHANGED <<live, pimpl, heap, shapes, capacity, inserted>>

\* ------------------------------------------------- std::vector<Shape> shapes
\* relocation on growth: every element is move-constructed into the new
\* storage (Shape's defaulted move constructor is noexcept) and the
\* moved-from element is destroyed
Relocated(elems) == [i \in 1..Len(elems) |-> ShapeMoveCtor(elems[i]).dst]
MovedFrom(elems) == [i \in 1..Len(elems) |-> ShapeMoveCtor(elems[i]).src]

RECURSIVE DestroyAll(_, _)
DestroyAll(hp, elems) ==
    IF elems = <<>> THEN hp
    ELSE DestroyAll(ShapeDtor(hp, Head(elems)), Tail(elems))

\* shapes.emplace_back(x);   (main.cpp:46-48)
\* the new element is constructed in place by Shape(T const&); when
\* size() = capacity() the vector first grows to some larger capacity c
EmplaceBack(x) ==
    /\ ~ub /\ Len(shapes) < MaxVec
    /\ \E a \in FreeAddrs(heap) :
         LET r == ShapeCtor(heap, x, a)
         IN IF Len(shapes) < capacity
            THEN /\ heap' = r.heap
                 /\ shapes' = Append(shapes, r.dst)
                 /\ capacity' = capacity
            ELSE \E c \in (Len(shapes) + 1)..MaxVec :
                 /\ heap' = DestroyAll(r.heap, MovedFrom(shapes))
                 /\ shapes' = Append(Relocated(shapes), r.dst)
                 /\ capacity' = c
    /\ inserted' = Append(inserted, x)
    /\ out' = <<>>
    /\ lastOp' = Op("emplace_back", Len(shapes) + 1, 0, x)
    /\ UNCHANGED <<live, pimpl, ub>>

\* faulty variant: a loop that walks the collection from the back
RECURSIVE drawAllShapedReversed(_, _)
drawAllShapedReversed(hp, elems) ==
    IF elems = <<>> THEN [ub |-> FALSE, out |-> <<>>]
    ELSE LET first == draw(hp, Head(elems))
             rest == drawAllShapedReversed(hp, Tail(elems))
         IN IF first.ub THEN first
            ELSE [ub |-> rest.ub, out |-> rest.out \o first.out]

\* drawAllShaped(shapes);   (main.cpp:23-29, 50)
RECURSIVE drawAllShaped(_, _)
drawAllShaped(hp, elems) ==
    IF elems = <<>> THEN [ub |-> FALSE, out |-> <<>>]
    ELSE LET first == draw(hp, Head(elems))
             rest == drawAllShaped(hp, Tail(elems))
         IN IF first.ub THEN first
            ELSE [ub |-> rest.ub, out |-> first.out \o rest.out]

DrawAll ==
    /\ ~ub
    /\ LET r == drawAllShaped(heap, shapes)
       IN /\ out' = r.out
          /\ ub' = r.ub
    /\ lastOp' = Op("drawAllShaped", 0, 0, NoValue)
    /\ UNCHANGED <<live, pimpl, heap, shapes, capacity, inserted>>

\* shapes goes out of scope: every element is destroyed, the storage freed
DestroyVector ==
    /\ ~ub /\ capacity > 0
    /\ heap' = DestroyAll(heap, shapes)
    /\ shapes' = <<>>
    /\ capacity' = 0
    /\ inserted' = <<>>
    /\ out' = <<>>
    /\ lastOp' = Op("~vector", 0, 0, NoValue)
    /\ UNCHANGED <<live, pimpl, ub>>

\* ---------------------------------------------------- undefined behaviour
\* After an operation with undefined behaviour nothing is guaranteed: the
\* run may stop where it is, or go on with any pointer in the operand and
\* anything written to the stream.
Lines == {drawShape(v) : v \in Values}
Undefined ==
    /\ ub /\ lastOp.dst \in ShapeIds
    /\ \/ /\ \E p \in {NULL} \cup Addrs : pimpl' = [pimpl EXCEPT ![lastOp.dst] = p]
          /\ UNCHANGED out
       \/ /\ \E l \in Lines : out' = <<l>>
          /\ UNCHANGED pimpl
    /\ UNCHANGED <<live, heap, shapes, capacity, inserted, ub, lastOp>>

Next ==
    \/ \E w \in ShapeIds, x \in Values : Construct(w, x)
    \/ \E w \in ShapeIds : \E s \in ShapeIds \ {w} : CopyConstruct(w, s)
    \/ \E w \in ShapeIds, s \in ShapeIds : CopyAssign(w, s)
    \/ \E w \in ShapeIds : \E s \in ShapeIds \ {w} : MoveConstruct(w, s)
    \/ \E w \in ShapeIds, s \in ShapeIds : MoveAssign(w, s)
    \/ \E w \in ShapeIds : Destroy(w)
    \/ \E w \in ShapeIds : Draw(w)
    \/ Undefined

Spec == Init /\ [][Next]_vars

\* the driver's collection: main.cpp:43-50
NextVector ==
    \/ \E x \in Values : EmplaceBack(x)
    \/ DrawAll
    \/ DestroyVector

VectorSpec == Init /\ [][NextVector]_vars

\* ==================================================================
\* Properties
\* ==================================================================
Holding(w) == live[w] /\ pimpl[w] /= NULL
Empty(w) == live[w] /\ pimpl[w] = NULL
Moves == {"move ctor", "move assign"}
Assigns == {"copy assign", "move assign"}
LiveHolders(hp) == {a \in Addrs : hp[a] /= NoHolder}

\* C1  Render equivalence: for every concrete value v, constructing a Shape
\* from v and then calling draw on it writes exactly the line drawShape(v)
\* writes for the unwrapped value, nothing else, and is defined.
C1_RenderEquivalence ==
    /\ lastOp.op = "Shape" => (~ub /\ out = <<>>)
    /\ (lastOp.op = "draw" /\ lastOp.arg /= NoValue)
         => (~ub /\ out = <<drawShape(lastOp.arg)>>)

\* C1 witness: a Shape was constructed from Circle(230) and drawn.
C1_Witness ==
    /\ lastOp.op = "draw" /\ lastOp.arg = Circle(230)
    /\ out = << <<"Circle: ", 230>> >>

\* one step of the program, as C2_CopyDuplicates requires it
C2_CopyStep ==
    LET d == lastOp'.dst
        s == lastOp'.src
    IN (lastOp'.op \in Copies /\ ~ub')
        => /\ Valid(heap, pimpl[s])
           /\ live'[d] /\ pimpl'[d] \in Addrs
           /\ heap[pimpl'[d]] = NoHolder
           /\ heap'[pimpl'[d]] = heap[pimpl[s]]
           /\ draw(heap', pimpl'[d]) = draw(heap, pimpl[s])
           /\ live'[s] /\ Held(heap', pimpl'[s]) = Held(heap, pimpl[s])
           /\ draw(heap', pimpl'[s]) = draw(heap, pimpl[s])
           /\ d /= s => (pimpl'[s] = pimpl[s] /\ pimpl'[d] /= pimpl'[s])

\* C2  Copy produces an equal duplicate: after a copy construction or copy
\* assignment from a holding wrapper W, the destination owns a holder created
\* by the copy, with the concrete type and value of W's holder, so it renders
\* what W rendered; W still holds its original type and value.
C2_CopyDuplicates == [][C2_CopyStep]_vars

\* C2 witness: a wrapper was copy-constructed from one holding Circle(230);
\* both now hold Circle(230), in two different holders.
C2_Witness ==
    /\ ~ub /\ lastOp.op = "copy ctor"
    /\ Holding(lastOp.dst) /\ Holding(lastOp.src)
    /\ pimpl[lastOp.dst] /= pimpl[lastOp.src]
    /\ heap[pimpl[lastOp.dst]] = ShapeModel(Circle(230))
    /\ heap[pimpl[lastOp.src]] = ShapeModel(Circle(230))
    /\ out = << <<"copy ctor">> >>

\* the pimpl of every live wrapper: the named ones and the vector's elements
Owners == {<<"named", w>> : w \in {x \in ShapeIds : live[x]}}
              \cup {<<"shapes", i>> : i \in 1..Len(shapes)}
PimplOf(o) == IF o[1] = "named" THEN pimpl[o[2]] ELSE shapes[o[2]]
NoAlias ==
    \A o1, o2 \in Owners :
        (o1 /= o2 /\ PimplOf(o1) /= NULL) => PimplOf(o1) /= PimplOf(o2)

\* one step of the program, as C3_NoAliasIndependence requires it
C3_Step ==
    ~ub' =>
      /\ NoAlias'
      /\ \A w \in ShapeIds :
           (live[w] /\ w /= lastOp'.dst /\ ~(lastOp'.op \in Moves /\ w = lastOp'.src))
             => /\ live'[w] /\ pimpl'[w] = pimpl[w]
                /\ Held(heap', pimpl'[w]) = Held(heap, pimpl[w])
                /\ draw(heap', pimpl'[w]) = draw(heap, pimpl[w])

\* C3  No aliasing and copy independence: while behaviour is defined, no two
\* distinct wrappers refer to the same holder, and an operation leaves every
\* live wrapper that is neither its destination nor the source of its move
\* as it was: same holder, same value, same rendering.
C3_NoAliasIndependence == [][C3_Step]_vars

\* C3 witness: right after one wrapper was made a copy of another, one of
\* the two was assigned to, moved from or destroyed; the other still holds
\* its value.
C3_Witness ==
    /\ ~ub /\ lastOp.peer /= 0
    /\ lastOp.op \in {"dtor", "copy assign", "move assign", "move ctor"}
    /\ Holding(lastOp.peer) /\ Valid(heap, pimpl[lastOp.peer])

\* one step of the program, as C4_MoveCorrect requires it
C4_MoveStep ==
    LET d == lastOp'.dst
        s == lastOp'.src
    IN (lastOp'.op \in Moves /\ d /= s /\ ~ub' /\ Valid(heap, pimpl[s]))
        => /\ draw(heap', pimpl'[d]) = draw(heap, pimpl[s])
           /\ live'[s] /\ pimpl'[s] = NULL
           /\ live'[d] /\ pimpl'[d] = pimpl[s]
           /\ heap'[pimpl[s]] = heap[pimpl[s]]
           /\ LiveHolders(heap') \subseteq LiveHolders(heap)

\* C4  Move correctness: after a move construction or move assignment into
\* a different wrapper from a holding W1, the destination renders what W1
\* rendered before, W1 is live and empty, and the destination owns the very
\* holder W1 owned: the move creates no holder.
C4_MoveCorrect == [][C4_MoveStep]_vars

\* C4 witness: a wrapper that held Circle(2) was move-assigned from another
\* wrapper; it now holds Square(230) and the source is empty.
C4_Witness ==
    /\ ~ub /\ lastOp.op = "move assign" /\ lastOp.dst /= lastOp.src
    /\ lastOp.arg = Circle(2)
    /\ Held(heap, pimpl[lastOp.dst]) = Square(230)
    /\ Empty(lastOp.src)

\* every holder dispatches to the render function of the type of its object
Bound(hp) ==
    \A a \in Addrs :
        hp[a] /= NoHolder => (hp[a].object \in Values /\ hp[a].model = hp[a].object.type)

\* one step of the program, as C5_BindingFollowsValue requires it
C5_Step ==
    LET d == lastOp'.dst
        s == lastOp'.src
    IN ~ub' =>
         /\ Bound(heap')
         /\ \A w \in ShapeIds :
              Valid(heap', pimpl'[w])
                => draw(heap', pimpl'[w]).out = <<drawShape(heap'[pimpl'[w]].object)>>
         /\ (lastOp'.op \in Assigns /\ Valid(heap, pimpl[s]))
              => /\ Held(heap', pimpl'[d]) = Held(heap, pimpl[s])
                 /\ heap'[pimpl'[d]].model = heap[pimpl[s]].model
                 /\ draw(heap', pimpl'[d]).out = <<drawShape(heap[pimpl[s]].object)>>

\* C5  Value and capability binding are replaced together: while behaviour
\* is defined every holder's render function is the one of the concrete type
\* of the value it stores, every holding wrapper renders what drawShape gives
\* for its stored value, and after a copy or move assignment from a wrapper
\* holding A the destination holds A's value and renders it with A's function.
C5_BindingFollowsValue == [][C5_Step]_vars

\* C5 witness: the wrapper that held Circle(230) was copy-assigned the
\* wrapper holding Square(230); its holder is now a Square model of
\* Square(230) and it renders the square's line.
C5_Witness ==
    /\ ~ub /\ lastOp.op = "copy assign" /\ lastOp.dst /= lastOp.src
    /\ lastOp.arg = Circle(230)
    /\ Holding(lastOp.dst)
    /\ heap[pimpl[lastOp.dst]] = [model |-> "Square", object |-> Square(230)]
    /\ draw(heap, pimpl[lastOp.dst]).out = << <<"Square: ", 230>> >>

\* C6  Heterogeneous collection renders in insertion order: drawAllShaped
\* writes exactly one line per element emplaced, the i-th being drawShape of
\* the i-th value emplaced, whatever relocations the emplacements caused.
C6_InsertionOrder ==
    lastOp.op = "drawAllShaped"
        => /\ ~ub
           /\ out = [i \in 1..Len(inserted) |-> drawShape(inserted[i])]

\* C6 witness: a circle, a square and a default triangle were emplaced in
\* that order into the empty vector and drawAllShaped wrote their three
\* distinct lines in that order.
C6_Witness ==
    /\ lastOp.op = "drawAllShaped"
    /\ inserted = <<Circle(2), Square(2), Triangle>>
    /\ out = << <<"Circle: ", 2>>, <<"Square: ", 2>>, <<"Δ">> >>
    /\ Cardinality({out[i] : i \in 1..Len(out)}) = 3

\* a live wrapper is empty or holds one fully formed concrete value
TwoStates ==
    \A w \in ShapeIds :
        live[w] => \/ pimpl[w] = NULL
                   \/ /\ Valid(heap, pimpl[w])
                      /\ heap[pimpl[w]] \in {ShapeModel(v) : v \in Values}

\* what the lifecycle claims besides the way a holding wrapper becomes empty
C7_Lifecycle ==
    LET d == lastOp'.dst
        s == lastOp'.src
    IN /\ TwoStates'
       /\ lastOp'.op = "Shape" => (live'[d] /\ pimpl'[d] /= NULL)
       /\ (lastOp'.op \in {"copy ctor", "move ctor"} /\ Holding(s))
            => (live'[d] /\ pimpl'[d] /= NULL)
       /\ (lastOp'.op \in Assigns /\ Empty(d) /\ Holding(s))
            => (live'[d] /\ pimpl'[d] /= NULL)
       /\ (lastOp'.op = "dtor" /\ Empty(d)) => ~live'[d]

\* one step of the program, as C7_OnlyMoveOutEmpties requires it
C7_OriginalStep ==
    ~ub' =>
      /\ C7_Lifecycle
      /\ \A w \in ShapeIds :
           (Holding(w) /\ Empty(w)') => (lastOp'.op \in Moves /\ lastOp'.src = w)

\* C7 as stated  Two-state lifecycle: each live Shape is empty or holds one
\* fully formed concrete value; a wrapper is holding right after construction
\* from a concrete value or after copy or move construction from a holding
\* wrapper; the only transition from holding to empty is being the source of
\* a move construction or move assignment; an empty wrapper can be destroyed,
\* and copy or move assignment from a holding wrapper makes it holding again.
C7_OnlyMoveOutEmpties == [][C7_OriginalStep]_vars

\* one step of the program, as C7_TwoStateLifecycle requires it
C7_AmendedStep ==
    ~ub' =>
      /\ C7_Lifecycle
      /\ \A w \in ShapeIds :
           (Holding(w) /\ Empty(w)')
             => \/ lastOp'.op \in Moves /\ lastOp'.src = w /\ lastOp'.dst /= w
                \/ /\ lastOp'.op = "move assign" /\ lastOp'.dst = w
                   /\ lastOp'.src /= w /\ Empty(lastOp'.src)

\* C7 amended  Two-state lifecycle: while behaviour is defined each live
\* Shape is empty or holds one fully formed concrete value; a wrapper is
\* holding right after construction from a concrete value or after copy or
\* move construction from a holding wrapper; a holding wrapper becomes empty
\* only as the source of a move construction or move assignment into another
\* wrapper, or as the destination of a move assignment from an empty wrapper;
\* an empty wrapper can be destroyed, and copy or move assignment from a
\* holding wrapper makes it holding again.
C7_TwoStateLifecycle == [][C7_AmendedStep]_vars

\* C7 witness: a holding wrapper was the destination of a move assignment
\* from an empty wrapper and is empty now.
C7_Witness ==
    /\ ~ub /\ lastOp.op = "move assign" /\ lastOp.dst /= lastOp.src
    /\ lastOp.arg \in Values
    /\ Empty(lastOp.dst) /\ Empty(lastOp.src)

\* the holders some live wrapper points to
Owned == {PimplOf(o) : o \in Owners} \ {NULL}

\* one step of the program, as C8_ExclusiveOwnership requires it
C8_Step ==
    LET d == lastOp'.dst
        s == lastOp'.src
    IN ~ub' =>
         /\ NoAlias'
         /\ LiveHolders(heap') = Owned'
         /\ (lastOp'.op = "dtor" /\ pimpl[d] /= NULL) => heap'[pimpl[d]] = NoHolder
         /\ (lastOp'.op \in Assigns /\ pimpl[d] /= NULL
               /\ ~(lastOp'.op = "move assign" /\ d = s))
              => heap'[pimpl[d]] = NoHolder
         /\ Owners' = {} => LiveHolders(heap') = {}

C9_Step ==
    LET d == lastOp'.dst
        s == lastOp'.src
    IN (~ub /\ \/ lastOp'.op = "draw" /\ Empty(d)
               \/ lastOp'.op \in Copies /\ Empty(s))
        => /\ ub'
           /\ out' = <<>>
           /\ UNCHANGED <<live, pimpl, heap>>

\* C9  Unguarded use of an empty wrapper: draw on an empty wrapper, copy
\* construction from one and copy assignment from one each have undefined
\* behaviour (nothing is returned or signalled), and up to that point nothing
\* was written and no wrapper or holder, the destination included, was modified.
C9_EmptyUseUndefined == [][C9_Step]_vars

\* C9 witness: copy assignment from an empty wrapper reached undefined
\* behaviour with the destination still holding the value it held before.
C9_Witness ==
    /\ ub /\ lastOp.op = "copy assign" /\ Empty(lastOp.src)
    /\ lastOp.arg \in Values
    /\ Held(heap, pimpl[lastOp.dst]) = lastOp.arg

\* one step of the program, as C10_SelfCopyAssign requires it
C10_Step ==
    LET w == lastOp'.dst
    IN (lastOp'.op = "copy assign" /\ lastOp'.src = w /\ ~ub /\ Valid(heap, pimpl[w]))
        => /\ ~ub'
           /\ pimpl'[w] \in Addrs /\ pimpl'[w] /= pimpl[w]
           /\ heap[pimpl'[w]] = NoHolder
           /\ heap'[pimpl'[w]] = heap[pimpl[w]]
           /\ heap'[pimpl[w]] = NoHolder
           /\ draw(heap', pimpl'[w]) = draw(heap, pimpl[w])

\* C10  Self copy-assignment is safe and value-preserving: W = W on a holding
\* W is defined (the released holder is never read: the clone is made while
\* the old holder is live), W ends with a new holder of the same concrete
\* type and value, the old holder is released, and W renders as before.
C10_SelfCopyAssign == [][C10_Step]_vars

\* C10 witness: a wrapper holding Square(2) was copy-assigned to itself and
\* holds Square(2).
C10_Witness ==
    /\ ~ub /\ lastOp.op = "copy assign" /\ lastOp.dst = lastOp.src
    /\ lastOp.arg = Square(2)
    /\ Held(heap, pimpl[lastOp.dst]) = Square(2)

====
